---- MODULE Spec2Model ----
(***************************************************************************)
(* currycompose: g.compose(f) builds Composition { g, f, phantom }, a      *)
(* callable whose argument tuple is Tail<XG> ++ XF and whose call methods  *)
(* (call_once / call_mut / call) split the tuple, call f on the right part *)
(* and call g on (f's result,) ++ left part.                               *)
(*                                                                         *)
(* Callables are records.  A primitive callable stands for a closure, fn   *)
(* item or hand-written callable handed to the crate: a signature          *)
(* (argument types, output type), the strongest Fn* trait it implements,   *)
(* whether it is Copy and Clone, the state it captured, and whether it     *)
(* panics on some inputs.  State a closure holds by value is part of the   *)
(* record and is copied with it; state it reaches through a reference it   *)
(* captured (&Cell, Rc<Cell>) lives in `cells` and is shared by every copy *)
(* and clone.  A Composition is the struct of lib.rs:221-226.              *)
(***************************************************************************)
EXTENDS Integers, Sequences, FiniteSets, TLC

VARIABLES gv, fv, h, h2, cells, last, kept, log, ncalls, limit

vars == <<gv, fv, h, h2, cells, last, kept, log, ncalls, limit>>

----------------------------------------------------------------------------
(* Bounds of the model *)

\* largest arity of a primitive callable
MaxArity == 2
\* invocations made in one behaviour
MaxCalls == 2
\* invocations made in one behaviour by a caller that compares their results
MaxRepeats == 3
\* nesting depth of Compositions (1 = g.compose(f), 2 = gf.compose(f'))
MaxDepth == 2

Types == {"u8", "f32", "String"}

\* the types that are Copy; every type here is Clone
CopyTypes == {"u8", "f32"}
CloneTypes == Types

\* the three calling disciplines: FnOnce < FnMut < Fn
FN_ONCE == 1
FN_MUT == 2
FN == 3

----------------------------------------------------------------------------
(* Values that are not callables *)

\* a binding that holds nothing yet
None == [kind |-> "none"]
\* a binding whose value has been moved out
Moved == [kind |-> "moved"]
\* the caller keeps no record of an invocation through &self
Off == [kind |-> "off"]

IsCallable(c) == c.kind \in {"prim", "comp"}

----------------------------------------------------------------------------
(* The tuple algebra the crate imports (tupleops, tuple_split) *)

\* Tail<X>: the tuple type without its first element
TailT(x) == SubSeq(x, 2, Len(x))

\* Head<X>: the first element type
HeadT(x) == x[1]

\* ConcatTuples<A, B> and concat_tuples(a, b)
concat_tuples(a, b) == a \o b

\* TupleSplit::split_tuple with the left length fixed by the target type
split_tuple(args, n) == <<SubSeq(args, 1, n), SubSeq(args, n + 1, Len(args))>>

----------------------------------------------------------------------------
(* Signatures and traits of callables *)

RECURSIVE Depth(_)
Depth(c) == IF c.kind = "comp"
            THEN 1 + (IF Depth(c.g) > Depth(c.f) THEN Depth(c.g) ELSE Depth(c.f))
            ELSE 0

\* the argument tuple type a callable is called with:
\* ConcatTuples<Tail<XG>, XF> for a Composition
ArgsOf(c) == IF c.kind = "comp" THEN concat_tuples(TailT(c.xg), c.xf) ELSE c.args

\* type Output = <G as FnOnce<XG>>::Output
RECURSIVE OutputOf(_)
OutputOf(c) == IF c.kind = "comp" THEN OutputOf(c.g) ELSE c.out

RECURSIVE Supports(_, _)

\* where clauses that bound G only
Supports_onlyG(c, d) == IF c.kind = "comp" THEN Supports(c.g, d) ELSE d <= c.level

\* which of FnOnce (1), FnMut (2), Fn (3) a callable implements: a
\* Composition implements one exactly when G and F both do
Supports(c, d) == IF c.kind = "comp"
                  THEN Supports(c.g, d) /\ Supports(c.f, d)
                  ELSE d <= c.level

\* every element type of the tuple type x is in ts
TupleOf(x, ts) == \A i \in 1..Len(x) : x[i] \in ts

\* derive(Copy) bounds every type parameter: a Composition<G, F, XG, XF> is
\* Copy when G, F, XG and XF all are
RECURSIVE IsCopy(_)
IsCopy(c) == IF c.kind = "comp"
             THEN /\ IsCopy(c.g) /\ IsCopy(c.f)
                  /\ TupleOf(c.xg, CopyTypes) /\ TupleOf(c.xf, CopyTypes)
             ELSE c.copy

\* derive(Clone) bounds every type parameter in the same way
RECURSIVE IsClone(_)
IsClone(c) == IF c.kind = "comp"
              THEN /\ IsClone(c.g) /\ IsClone(c.f)
                   /\ TupleOf(c.xg, CloneTypes) /\ TupleOf(c.xf, CloneTypes)
              ELSE c.clone

\* where clauses without Output = Head<XG>
WellFormed_notype(g, f) ==
    /\ IsCallable(g) /\ IsCallable(f)
    /\ Supports(g, FN_ONCE) /\ Supports(f, FN_ONCE)
    /\ Len(ArgsOf(g)) >= 1

\* the where clauses of impl Compose for G
WellFormed(g, f) ==
    /\ IsCallable(g) /\ IsCallable(f)
    /\ Supports(g, FN_ONCE) /\ Supports(f, FN_ONCE)
    /\ Len(ArgsOf(g)) >= 1
    /\ OutputOf(f) = HeadT(ArgsOf(g))

\* a compose that calls f once before it stores it
compose_eager(self, with) ==
    [kind |-> "comp", g |-> self,
     f |-> IF with.kind = "prim" THEN [with EXCEPT !.st = @ + 1] ELSE with,
     xg |-> ArgsOf(self), xf |-> ArgsOf(with)]

\* Compose::compose
compose(self, with) ==
    [kind |-> "comp", g |-> self, f |-> with, xg |-> ArgsOf(self), xf |-> ArgsOf(with)]

----------------------------------------------------------------------------
(* Primitive callables: the closures and fn items given to the crate *)

RECURSIVE WeightedSum(_, _)
WeightedSum(xs, i) == IF i > Len(xs) THEN 0 ELSE i * xs[i] + WeightedSum(xs, i + 1)

\* the state a closure computes from: the Cell it reaches through a captured
\* reference, or what it holds itself
StateOf(p, cs) == IF p.cell = "shared" THEN cs[p.name] ELSE p.st

\* the value a primitive in state s computes: every argument position has its
\* own weight, so that a reordered argument list gives another value
RawAt(p, xs, s) == p.salt + s + WeightedSum(xs, 1)

Raw(p, xs, cs) == RawAt(p, xs, StateOf(p, cs))

\* a partial primitive panics on the inputs where its value is odd
PanicsAt(p, xs, s) == p.partial /\ RawAt(p, xs, s) % 2 = 1

Panics(p, xs, cs) == PanicsAt(p, xs, StateOf(p, cs))

Panic(p, xs, cs) == [kind |-> "panic", by |-> p.name, args |-> xs, st |-> StateOf(p, cs)]

Event(path, ev, via, val) == [path |-> path, ev |-> ev, via |-> via, val |-> val]

\* a closure that changes its state when it is called: an FnMut one, or one
\* that writes through a Cell (its own, or one it reaches by reference)
Mutates(p) == p.level = FN_MUT \/ p.cell # "none"

\* the closure after a call that returned
Stepped(p) == IF Mutates(p) /\ p.cell # "shared" THEN [p EXCEPT !.st = @ + 1] ELSE p

\* the shared Cells after a call of p that returned
Written(p, cs) == IF Mutates(p) /\ p.cell = "shared"
                  THEN [cs EXCEPT ![p.name] = @ + 1] ELSE cs

\* one call of a primitive through the method `via`
PrimCall(p, xs, via, path, cs) ==
    IF Panics(p, xs, cs)
    THEN [ok |-> FALSE, out |-> Panic(p, xs, cs), self |-> p, cells |-> cs,
          tr |-> <<Event(path, "call", via, xs),
                   Event(path, "panic", via, Panic(p, xs, cs))>>]
    ELSE [ok |-> TRUE, out |-> Raw(p, xs, cs), self |-> Stepped(p),
          cells |-> Written(p, cs),
          tr |-> <<Event(path, "call", via, xs),
                   Event(path, "ret", via, Raw(p, xs, cs))>>]

----------------------------------------------------------------------------
(* The three call methods of Composition *)

\* a split that gives the whole tuple to f
SplitPoint_zero(self) == 0

\* the left length of the split: <Tail<XG> as TupleLength>::LENGTH
SplitPoint(self) == Len(TailT(self.xg))

\* f's result put behind the left part instead of in front of it
GArgs_back(r, left) == concat_tuples(left, <<r>>)

\* f's result left out of g's arguments
GArgs_drop(r, left) == left

\* the argument tuple g is called with: concat_tuples((r,), left)
GArgs(r, left) == concat_tuples(<<r>>, left)

\* f's panic caught and raised again as a panic of the Composition
Unwound_wrapped(path, via, args, rf, after) ==
    [ok |-> FALSE,
     out |-> [kind |-> "panic", by |-> "Composition", args |-> args, st |-> 0],
     self |-> after, cells |-> rf.cells,
     tr |-> <<Event(path, "call", via, args)>> \o rf.tr
            \o <<Event(path, "panic", via, rf.out)>>]

\* f panicked: the panic unwinds through the method, g is not called
Unwound(path, via, args, rf, after) ==
    [ok |-> FALSE, out |-> rf.out, self |-> after, cells |-> rf.cells,
     tr |-> <<Event(path, "call", via, args)>> \o rf.tr
            \o <<Event(path, "panic", via, rf.out)>>]

\* f returned and g was called: the method ends as g ended
Returned(path, via, args, rf, rg, after) ==
    [ok |-> rg.ok, out |-> rg.out, self |-> after, cells |-> rg.cells,
     tr |-> <<Event(path, "call", via, args)>> \o rf.tr \o rg.tr
            \o <<Event(path, IF rg.ok THEN "ret" ELSE "panic", via, rg.out)>>]

\* the fields after self.f and self.g were called in place
AfterF(self, rf) == [self EXCEPT !.f = rf.self]
\* f called on a copy of the field: its new state is lost
AfterFG_lost(self, rf, rg) == [self EXCEPT !.g = rg.self]
\* g called on a clone of the field: its new state is lost
AfterFG_glost(self, rf, rg) == [self EXCEPT !.f = rf.self]

AfterFG(self, rf, rg) == [self EXCEPT !.f = rf.self, !.g = rg.self]

RECURSIVE call_once(_, _, _, _), call_mut(_, _, _, _), call(_, _, _, _)
RECURSIVE invoke_once(_, _, _, _), invoke_mut(_, _, _, _), invoke(_, _, _, _)

\* FnOnce::call_once on a field: a closure, or a nested Composition
invoke_once(c, xs, path, cs) ==
    IF c.kind = "comp" THEN call_once(c, xs, path, cs)
    ELSE PrimCall(c, xs, "call_once", path, cs)

\* FnMut::call_mut on a field
invoke_mut(c, xs, path, cs) ==
    IF c.kind = "comp" THEN call_mut(c, xs, path, cs)
    ELSE PrimCall(c, xs, "call_mut", path, cs)

\* Fn::call on a field
invoke(c, xs, path, cs) ==
    IF c.kind = "comp" THEN call(c, xs, path, cs)
    ELSE PrimCall(c, xs, "call", path, cs)

\* Composition::call_once: self, g and f are consumed
call_once(self, args, path, cs) ==
    LET sp == split_tuple(args, SplitPoint(self))
        left == sp[1]
        right == sp[2]
        rf == invoke_once(self.f, right, path \o <<"f">>, cs)
        rg == invoke_once(self.g, GArgs(rf.out, left), path \o <<"g">>, rf.cells)
    IN  IF ~rf.ok
        THEN Unwound(path, "call_once", args, rf, Moved)
        ELSE Returned(path, "call_once", args, rf, rg, Moved)

\* Composition::call_mut: g and f are called through &mut self
call_mut(self, args, path, cs) ==
    LET sp == split_tuple(args, SplitPoint(self))
        left == sp[1]
        right == sp[2]
        rf == invoke_mut(self.f, right, path \o <<"f">>, cs)
        rg == invoke_mut(self.g, GArgs(rf.out, left), path \o <<"g">>, rf.cells)
    IN  IF ~rf.ok
        THEN Unwound(path, "call_mut", args, rf, AfterF(self, rf))
        ELSE Returned(path, "call_mut", args, rf, rg, AfterFG(self, rf, rg))

\* Composition::call: g and f are called through &self
call(self, args, path, cs) ==
    LET sp == split_tuple(args, SplitPoint(self))
        left == sp[1]
        right == sp[2]
        rf == invoke(self.f, right, path \o <<"f">>, cs)
        rg == invoke(self.g, GArgs(rf.out, left), path \o <<"g">>, rf.cells)
    IN  IF ~rf.ok
        THEN Unwound(path, "call", args, rf, AfterF(self, rf))
        ELSE Returned(path, "call", args, rf, rg, AfterFG(self, rf, rg))

----------------------------------------------------------------------------
(* The callables a caller starts from *)

\* where a closure keeps the state it changes: nowhere, in a Cell it owns, or
\* in a Cell it reaches through a captured reference
Cells == {"none", "own", "shared"}

\* the shared Cells before anything was called, one for each closure
NoCells == [n \in {"g", "f", "f2"} |-> 0]

Prim(name, salt, args, out, fl, partial, cell) ==
    [kind |-> "prim", name |-> name, salt |-> salt, args |-> args, out |-> out,
     level |-> fl[1], copy |-> fl[2], clone |-> fl[3], partial |-> partial,
     cell |-> cell, st |-> 0]

\* the strongest trait, Copy and Clone of a callable handed to compose (a
\* closure, an opaque impl FnOnce + Copy, a hand-written callable): every
\* combination, Copy needing Clone (Copy: Clone)
Flavours == {fl \in (FN_ONCE..FN) \X BOOLEAN \X BOOLEAN : fl[2] => fl[3]}

\* a flavour, whether the callable panics on some inputs, and where it keeps
\* the state it changes.  A callable that owns a Cell is not Copy, as a Cell
\* is not; the ones tried are Fn, since one that is FnMut or FnOnce only does
\* what a callable that holds its state by value does
Profiles == {pf \in Flavours \X BOOLEAN \X Cells :
                pf[3] = "own" => (pf[1][1] = FN /\ ~pf[1][2])}

Pf(level, copy, clone, partial, cell) == <<<<level, copy, clone>>, partial, cell>>

\* the argument tuple types of g: every argument is an f32
GSigs == {<<>>} \cup {<<t>> \o [i \in 1..n |-> "f32"] :
                        t \in {"f32"}, n \in 0..(MaxArity - 1)}

\* the argument tuple types of a g that takes Strings after its first argument
GStrSigs == {<<t>> \o [i \in 1..n |-> "String"] :
                t \in {"f32"}, n \in 1..(MaxArity - 1)}

\* the argument tuple types of f and f2: every argument is a u8
FSigs == {[i \in 1..n |-> "u8"] : n \in 0..MaxArity}

\* the argument tuple types of an f that takes Strings
FStrSigs == {[i \in 1..n |-> "String"] : n \in 1..MaxArity}

\* the closures g and f with the signatures and profiles given
Gs(sigs, pfs) == {Prim("g", 0, a, "f32", pf[1], pf[2], pf[3]) : a \in sigs, pf \in pfs}

Fs(sigs, outs, pfs) == {Prim("f", 1, a, o, pf[1], pf[2], pf[3]) :
                          a \in sigs, o \in outs, pf \in pfs}

\* the unary closures u8 -> out a caller writes to compose gf with, once the
\* former f was moved away: one that moves a captured value out, one that is Fn
F2Prims(out) == {Prim("f2", 2, <<"u8">>, out, <<lv, FALSE, FALSE>>, FALSE, "none") :
                    lv \in {FN_ONCE, FN}}

\* the argument tuples a caller passes for a tuple type: all zero, or a single
\* one at position k, which tells every argument position apart
ArgLists(ts) == {[i \in 1..Len(ts) |-> IF i = k THEN 1 ELSE 0] : k \in 0..Len(ts)}

----------------------------------------------------------------------------
(* The caller's bindings and the operations on them *)

\* an operand taken by reference: the binding stays
MoveOut_never(c) == c

\* passing a binding by value: a Copy value is copied, any other is moved
MoveOut(c) == IF IsCopy(c) THEN c ELSE Moved

\* the inner calls a Composition made itself (not those of nested ones)
TopCalls(tr) == SelectSeq(tr, LAMBDA e : Len(e.path) = 1 /\ e.ev = "call")

\* which fields one invocation called, in order
Inner(tr) == [i \in 1..Len(TopCalls(tr)) |-> TopCalls(tr)[i].path[1]]

\* what the caller logs of one invocation: the fields called, and whether the
\* invocation returned
Logged(r) == [calls |-> Inner(r.tr), ok |-> r.ok]

\* the caller's bindings of Compositions: gf, and gf2 for a clone of gf
Bindings == {"gf", "gf2"}

\* the value of a binding
Bound(b) == IF b = "gf" THEN h ELSE h2

\* the binding b gets the value v, the other binding stays
Rebind(b, v) == IF b = "gf" THEN h' = v /\ h2' = h2 ELSE h2' = v /\ h' = h

\* the caller goes on invoking
CallsLeft == ncalls < limit

\* a caller with the closures g from gs and f from fs that makes n invocations;
\* `keeping` says whether it keeps an invocation made through &self to
\* compare later ones with
Start(gs, fs, n, keeping) ==
    /\ gv \in gs
    /\ fv \in fs
    /\ h = None
    /\ h2 = None
    /\ cells = NoCells
    /\ last = [op |-> "init"]
    /\ kept = IF keeping THEN None ELSE Off
    /\ log = <<>>
    /\ ncalls = 0
    /\ limit = n

\* let gf = g.compose(f);
Compose ==
    /\ WellFormed(gv, fv)
    /\ h' = compose(gv, fv)
    /\ gv' = MoveOut(gv)
    /\ fv' = MoveOut(fv)
    /\ last' = [op |-> "compose", outer |-> "g", g |-> gv, f |-> fv]
    /\ UNCHANGED <<h2, cells, kept, log, ncalls, limit>>

\* let gff = gf.compose(f);
Chain ==
    /\ IsCallable(h)
    /\ Depth(h) < MaxDepth
    /\ WellFormed(h, fv)
    /\ h' = compose(h, fv)
    /\ fv' = MoveOut(fv)
    /\ last' = [op |-> "compose", outer |-> "gf", g |-> h, f |-> fv]
    /\ UNCHANGED <<gv, h2, cells, kept, log, ncalls, limit>>

\* what the caller saw of one invocation: the method, the binding invoked, its
\* value and the shared Cells before, the arguments and the outcome
Called(op, on, pre, args, r) ==
    [op |-> op, on |-> on, pre |-> pre, heap |-> cells, args |-> args,
     ok |-> r.ok, out |-> r.out, tr |-> r.tr]

\* what a caller that compares results keeps after an invocation through
\* &self: this invocation (its number, the binding and its value, the
\* arguments and the outcome), or what it kept before
Noted(on, args, r) ==
    IF kept = Off THEN {Off}
    ELSE {kept, [n |-> ncalls + 1, on |-> on, pre |-> Bound(on), args |-> args,
                 ok |-> r.ok, out |-> r.out]}

\* gf(args) or gf2(args) where the Composition is passed by value
CallOnce ==
    \E b \in Bindings :
        /\ IsCallable(Bound(b)) /\ CallsLeft
        /\ Supports(Bound(b), FN_ONCE)
        /\ \E args \in ArgLists(ArgsOf(Bound(b))) :
              \E r \in {call_once(Bound(b), args, <<>>, cells)} :
                  /\ Rebind(b, MoveOut(Bound(b)))
                  /\ cells' = r.cells
                  /\ last' = Called("call_once", b, Bound(b), args, r)
                  /\ log' = Append(log, Logged(r))
        /\ ncalls' = ncalls + 1
        /\ UNCHANGED <<gv, fv, kept, limit>>

\* gf(args) or gf2(args) through &mut
CallMut ==
    \E b \in Bindings :
        /\ IsCallable(Bound(b)) /\ CallsLeft
        /\ Supports(Bound(b), FN_MUT)
        /\ \E args \in ArgLists(ArgsOf(Bound(b))) :
              \E r \in {call_mut(Bound(b), args, <<>>, cells)} :
                  /\ Rebind(b, r.self)
                  /\ cells' = r.cells
                  /\ last' = Called("call_mut", b, Bound(b), args, r)
                  /\ log' = Append(log, Logged(r))
        /\ ncalls' = ncalls + 1
        /\ UNCHANGED <<gv, fv, kept, limit>>

\* gf(args) or gf2(args) through &
Call ==
    \E b \in Bindings :
        /\ IsCallable(Bound(b)) /\ CallsLeft
        /\ Supports(Bound(b), FN)
        /\ \E args \in ArgLists(ArgsOf(Bound(b))) :
              \E r \in {call(Bound(b), args, <<>>, cells)} :
                  /\ Rebind(b, r.self)
                  /\ cells' = r.cells
                  /\ last' = Called("call", b, Bound(b), args, r)
                  /\ kept' \in Noted(b, args, r)
                  /\ log' = Append(log, Logged(r))
        /\ ncalls' = ncalls + 1
        /\ UNCHANGED <<gv, fv, limit>>

\* the fields a Composition owns and drops with itself
Owned(c) == {c.g, c.f}

\* drop(gf) or drop(gf2): the Composition is passed by value, and what is
\* passed is dropped
Drop ==
    \E b \in Bindings :
        /\ IsCallable(Bound(b))
        /\ Rebind(b, MoveOut(Bound(b)))
        /\ last' = [op |-> "drop", on |-> b, pre |-> Bound(b),
                    released |-> Owned(Bound(b))]
        /\ UNCHANGED <<gv, fv, cells, kept, log, ncalls, limit>>

\* Clone::clone as derived: every field is cloned
clone(self) == [self EXCEPT !.g = self.g, !.f = self.f]

\* let gf2 = gf.clone();
Clone ==
    /\ IsCallable(h) /\ IsClone(h)
    /\ h2' = clone(h)
    /\ last' = [op |-> "clone"]
    /\ UNCHANGED <<gv, fv, h, cells, kept, log, ncalls, limit>>

\* let f = |x: u8| ..; a closure to compose gf with, after the former f was moved
LetF ==
    /\ IsCallable(h) /\ Depth(h) < MaxDepth
    /\ fv = Moved
    /\ Len(ArgsOf(h)) >= 1
    /\ fv' \in F2Prims(HeadT(ArgsOf(h)))
    /\ last' = [op |-> "let"]
    /\ UNCHANGED <<gv, h, h2, cells, kept, log, ncalls, limit>>

\* Four callers.  Each starts from closures of its own and does whatever Next
\* allows.

\* a closure without state that is Fn, Copy and total, as those of the doc tests
PureCopy == {Pf(FN, TRUE, TRUE, FALSE, "none")}

\* (1) closures of every arity and both output types, of the three disciplines,
\* total and partial, and a Copy closure that counts in a shared Cell
ShapeProfiles ==
    {pf \in Profiles : pf[3] = "none" /\ pf[1] \in {<<FN_ONCE, FALSE, FALSE>>,
                                                     <<FN_MUT, FALSE, FALSE>>,
                                                     <<FN, TRUE, TRUE>>}}
    \cup {Pf(FN, TRUE, TRUE, FALSE, "shared")}

Init == Start(Gs(GSigs, ShapeProfiles), Fs(FSigs, CopyTypes, ShapeProfiles),
              MaxCalls, FALSE)

\* (2) total closures of every flavour, without state or with a shared Cell;
\* Copy closures that take Strings; and a closure of any profile with a plain
\* Copy one
DisciplineProfiles == {pf \in Profiles : ~pf[2] /\ pf[3] # "own"}

InitDiscipline ==
    \/ Start(Gs({<<"f32">>, <<"f32", "f32">>}, DisciplineProfiles)
               \cup Gs(GStrSigs, PureCopy),
             Fs({<<"u8">>}, {"f32"}, DisciplineProfiles)
               \cup Fs(FStrSigs, {"f32"}, PureCopy),
             MaxCalls, FALSE)
    \/ Start(Gs({<<"f32">>}, PureCopy), Fs({<<"u8">>}, {"f32"}, Profiles),
             MaxCalls, FALSE)
    \/ Start(Gs({<<"f32">>}, Profiles), Fs({<<"u8">>}, {"f32"}, PureCopy),
             MaxCalls, FALSE)

\* (3) closures with state: FnMut ones of every flavour, total and partial, Fn
\* ones with a Cell, and ones of each discipline that count in a shared Cell
OrderProfiles ==
    {pf \in Profiles : pf[3] = "none" /\ pf[1][1] = FN_MUT}
    \cup {Pf(FN, TRUE, TRUE, FALSE, "none"), Pf(FN, TRUE, TRUE, TRUE, "none"),
          Pf(FN, FALSE, TRUE, FALSE, "own"), Pf(FN, FALSE, FALSE, TRUE, "own"),
          Pf(FN, TRUE, TRUE, FALSE, "shared"), Pf(FN, FALSE, TRUE, TRUE, "shared"),
          Pf(FN_MUT, TRUE, TRUE, FALSE, "shared"),
          Pf(FN_ONCE, FALSE, FALSE, FALSE, "none"),
          Pf(FN_ONCE, TRUE, TRUE, FALSE, "shared")}

InitOrder ==
    Start(Gs({<<"f32">>, <<"f32", "f32">>}, OrderProfiles),
          Fs({<<"u8">>}, {"f32"}, OrderProfiles), MaxCalls, FALSE)

\* (4) closures that are Fn, invoked MaxRepeats times by a caller that keeps
\* one invocation made through &self to compare later ones with: a plain Copy
\* closure with a closure of any profile, and a binary g with an f that keeps
\* its state as g does
RepeatProfiles == {pf \in Profiles : pf[1][1] = FN}

InitRepeat ==
    \/ Start(Gs({<<"f32">>}, PureCopy), Fs({<<"u8">>}, {"f32"}, RepeatProfiles),
             MaxRepeats, TRUE)
    \/ Start(Gs({<<"f32">>}, RepeatProfiles), Fs({<<"u8">>}, {"f32"}, PureCopy),
             MaxRepeats, TRUE)
    \/ \E pf \in {pf \in RepeatProfiles : ~pf[2]} :
          Start(Gs({<<"f32", "f32">>}, {pf}), Fs({<<"u8">>}, {"f32"}, {pf}),
                MaxRepeats, TRUE)

Next == Compose \/ Chain \/ CallOnce \/ CallMut \/ Call \/ Drop \/ Clone \/ LetF

Spec == Init /\ [][Next]_vars

SpecDiscipline == InitDiscipline /\ [][Next]_vars

SpecOrder == InitOrder /\ [][Next]_vars

SpecRepeat == InitRepeat /\ [][Next]_vars

----------------------------------------------------------------------------
(* What the properties below refer to *)

CallOps == {"call_once", "call_mut", "call"}

\* the last step invoked the Composition last.pre with last.args
Invoked == last.op \in CallOps

\* p(xs) for a primitive called directly, the shared Cells being cs
Apply(p, xs, cs) == IF Panics(p, xs, cs)
                    THEN [ok |-> FALSE, out |-> Panic(p, xs, cs), cells |-> cs]
                    ELSE [ok |-> TRUE, out |-> Raw(p, xs, cs), cells |-> Written(p, cs)]

\* g(f(x1..xm), t1..t(n-1)) for the argument list (t1..t(n-1), x1..xm), where g
\* and f may be Compositions themselves: f is evaluated, then g
RECURSIVE Nested(_, _, _)
Nested(c, xs, cs) ==
    IF c.kind = "prim" THEN Apply(c, xs, cs)
    ELSE LET n == Len(ArgsOf(c.g))
             t == SubSeq(xs, 1, n - 1)
             x == SubSeq(xs, n, Len(xs))
             r == Nested(c.f, x, cs)
         IN  IF r.ok THEN Nested(c.g, <<r.out>> \o t, r.cells) ELSE r

\* the primitives a callable is built from
RECURSIVE Leaves(_)
Leaves(c) == IF c.kind = "comp" THEN Leaves(c.g) \cup Leaves(c.f) ELSE {c}

\* how many closures inside c write the shared Cell n when c is invoked
RECURSIVE Writers(_, _)
Writers(c, n) ==
    IF c.kind = "comp" THEN Writers(c.g, n) + Writers(c.f, n)
    ELSE IF c.cell = "shared" /\ c.name = n THEN 1 ELSE 0

\* the shared Cells after one call of every closure inside c
CellsAfter(c, cs) == [n \in DOMAIN cs |-> cs[n] + Writers(c, n)]

\* the state of a callable after one call of each of its primitives
RECURSIVE Bumped(_)
Bumped(c) ==
    IF c.kind = "comp" THEN [c EXCEPT !.g = Bumped(c.g), !.f = Bumped(c.f)]
    ELSE IF (c.level = FN_MUT \/ c.cell = "own") /\ c.cell # "shared"
         THEN [c EXCEPT !.st = @ + 1] ELSE c

----------------------------------------------------------------------------
(* C1: argument-shift law.  Every invocation of a Composition of g (arity n)  *)
(* and f (arity m) takes n-1+m arguments (t1..t(n-1), x1..xm) and returns     *)
(* g(f(x1..xm), t1..t(n-1)): the list is split at n-1, the right part goes to *)
(* f in its order, f's result comes first in g's list and the left part      *)
(* follows in its order.                                                      *)
ArgumentShift ==
    Invoked =>
        /\ Len(last.args) = Len(ArgsOf(last.pre.g)) - 1 + Len(ArgsOf(last.pre.f))
        /\ LET ref == Nested(last.pre, last.args, last.heap)
           IN  /\ ref.ok = last.ok
               /\ ref.out = last.out

\* an invocation that returned, with two leftover arguments of g, the second
\* of them 1, and an argument for f
ArgumentShiftWitness ==
    /\ Invoked /\ last.ok
    /\ Len(ArgsOf(last.pre.g)) = 3
    /\ Len(ArgsOf(last.pre.f)) >= 1
    /\ last.args[2] = 1

(* C2: for unary g and unary f, compose(g, f)(x) = g(f(x)): the Composition  *)
(* takes exactly f's argument and returns exactly g's result.                 *)
UnaryIdentity ==
    (/\ Invoked
     /\ last.pre.g.kind = "prim" /\ last.pre.f.kind = "prim"
     /\ Len(last.pre.g.args) = 1 /\ Len(last.pre.f.args) = 1)
    => /\ Len(last.args) = 1
       /\ LET fx == Apply(last.pre.f, last.args, last.heap)
          IN  fx.ok =>
                LET gfx == Apply(last.pre.g, <<fx.out>>, fx.cells)
                IN  gfx.ok => (last.ok /\ last.out = gfx.out)

UnaryIdentityWitness ==
    /\ Invoked /\ last.ok
    /\ last.pre.g.kind = "prim" /\ last.pre.f.kind = "prim"
    /\ Len(last.pre.g.args) = 1 /\ Len(last.pre.f.args) = 1
    /\ last.args = <<1>>

\* the last step invoked g.compose(f).compose(f2) for a binary closure g and
\* unary closures f and f2
Chained ==
    /\ Invoked
    /\ last.pre.g.kind = "comp" /\ last.pre.f.kind = "prim"
    /\ last.pre.g.g.kind = "prim" /\ last.pre.g.f.kind = "prim"
    /\ Len(last.pre.g.g.args) = 2
    /\ Len(last.pre.g.f.args) = 1 /\ Len(last.pre.f.args) = 1

\* g(f(x), f2(y)) as an expression: f(x) is evaluated, then f2(y), then g
AsExpression(g, f, x, f2, y, cs) ==
    LET r1 == Apply(f, <<x>>, cs)
    IN  IF ~r1.ok THEN [ok |-> FALSE]
        ELSE LET r2 == Apply(f2, <<y>>, r1.cells)
             IN  IF ~r2.ok THEN [ok |-> FALSE]
                 ELSE LET rg == Apply(g, <<r1.out, r2.out>>, r2.cells)
                      IN  [ok |-> rg.ok, out |-> rg.out]

\* g(f(x), f2(y)) with f2(y) evaluated before f(x)
AsNested(g, f, x, f2, y, cs) ==
    LET r2 == Apply(f2, <<y>>, cs)
    IN  IF ~r2.ok THEN [ok |-> FALSE]
        ELSE LET r1 == Apply(f, <<x>>, r2.cells)
             IN  IF ~r1.ok THEN [ok |-> FALSE]
                 ELSE LET rg == Apply(g, <<r1.out, r2.out>>, r1.cells)
                      IN  [ok |-> rg.ok, out |-> rg.out]

\* f and f2 count in the same shared Cell
SharedCell(f, f2) == f.cell = "shared" /\ f2.cell = "shared" /\ f.name = f2.name

\* what the expression g(f(x), f'(y)) gives for the Composition last invoked
ChainedExpression ==
    AsExpression(last.pre.g.g, last.pre.g.f, last.args[1],
                 last.pre.f, last.args[2], last.heap)

(* C3 as stated: for binary g and unary f and f', compose(compose(g, f), f')  *)
(* called with (x, y) returns what g(f(x), f'(y)) returns.                    *)
ChainingAsExpression ==
    Chained
    => /\ Len(last.args) = 2
       /\ ChainedExpression.ok => (last.ok /\ last.out = ChainedExpression.out)

(* C3 as amended: a Composition can be composed again.  For binary g and      *)
(* unary f and f', compose(compose(g, f), f') called with (x, y) returns      *)
(* g(f(x), f'(y)) where f'(y) is evaluated before f(x), as the manual nesting *)
(* of the two Compositions does; this is what the expression g(f(x), f'(y))  *)
(* returns unless f and f' change state that they share.                      *)
Chaining ==
    Chained
    => /\ Len(last.args) = 2
       /\ LET n == AsNested(last.pre.g.g, last.pre.g.f, last.args[1],
                            last.pre.f, last.args[2], last.heap)
          IN  n.ok => (last.ok /\ last.out = n.out)
       /\ ~SharedCell(last.pre.g.f, last.pre.f)
            => (ChainedExpression.ok => (last.ok /\ last.out = ChainedExpression.out))

\* gff(0, 1) returned, where gff = g.compose(f).compose(f) and f is a Copy
\* closure that counts in a shared Cell: not what g(f(0), f(1)) returns
ChainingWitness ==
    /\ Chained /\ last.ok
    /\ SharedCell(last.pre.g.f, last.pre.f)
    /\ last.args = <<0, 1>>
    /\ ChainedExpression.ok /\ last.out # ChainedExpression.out

----------------------------------------------------------------------------
\* the weakest of the primitives' strongest disciplines
MinLevel(c) == CHOOSE l \in FN_ONCE..FN :
                  /\ \E p \in Leaves(c) : p.level = l
                  /\ \A p \in Leaves(c) : p.level >= l

AllCopy(c) == \A p \in Leaves(c) : p.copy

\* every closure inside c is Copy and takes arguments of Copy types only
CopyThroughout(c) ==
    \A p \in Leaves(c) : p.copy /\ \A i \in 1..Len(p.args) : p.args[i] \in CopyTypes

\* a discipline is offered exactly when g and f both support it
OfferedByBoth ==
    /\ last.op = "call_mut"
         => (MinLevel(last.pre.g) >= FN_MUT /\ MinLevel(last.pre.f) >= FN_MUT)
    /\ last.op = "call"
         => (MinLevel(last.pre.g) >= FN /\ MinLevel(last.pre.f) >= FN)
    /\ \A b \in Bindings :
          IsCallable(Bound(b))
            => \A d \in FN_ONCE..FN :
                  Supports(Bound(b), d)
                    <=> (MinLevel(Bound(b).g) >= d /\ MinLevel(Bound(b).f) >= d)

\* a Composition was invoked by value, and its g or f is consuming-only
ConsumingInvoked ==
    /\ last.op = "call_once"
    /\ (MinLevel(last.pre.g) = FN_ONCE \/ MinLevel(last.pre.f) = FN_ONCE)

(* C4 as stated: a Composition can be invoked through a discipline exactly    *)
(* when g and f both support it, and a Composition with a consuming-only      *)
(* operand is gone after one invocation, so that no second one is offered.    *)
DisciplineSingleUse ==
    /\ OfferedByBoth
    /\ ConsumingInvoked => ~IsCallable(Bound(last.on))

(* C4 as amended: a Composition can be invoked through a discipline exactly   *)
(* when g and f both support it.  One with a consuming-only operand offers    *)
(* call_once alone, which takes it by value: it is gone after one invocation  *)
(* unless it is Copy (its closures and their argument types all are).  Then   *)
(* the invocation took a copy: the caller's Composition holds g and f as      *)
(* before and can be invoked again, and only state that g and f reach through *)
(* a reference is as the invocation left it.                                  *)
DisciplineMinimum ==
    /\ OfferedByBoth
    /\ ConsumingInvoked
         => /\ IsCallable(Bound(last.on)) <=> CopyThroughout(last.pre)
            /\ IsCallable(Bound(last.on))
                 => (Bound(last.on) = last.pre /\ ~Supports(Bound(last.on), FN_MUT))
            /\ last.ok => cells = CellsAfter(last.pre, last.heap)

\* the second invocation of a Copy Composition of a pure-repeatable g and a
\* consuming-only f that counts in a shared Cell
DisciplineMinimumWitness ==
    /\ ConsumingInvoked /\ ncalls = 2 /\ last.on = "gf"
    /\ MinLevel(last.pre.g) = FN /\ MinLevel(last.pre.f) = FN_ONCE
    /\ last.pre.f.kind = "prim" /\ last.pre.f.cell = "shared"
    /\ h = last.pre /\ Supports(h, FN_ONCE) /\ ~Supports(h, FN_MUT)
    /\ cells["f"] = 2

(* C5 as stated: after compose neither g nor f remains usable by the caller. *)
OwnershipExclusive ==
    last.op = "compose"
        => /\ ~IsCallable(fv)
           /\ last.outer = "g" => ~IsCallable(gv)

(* C5 as amended: compose takes g and f by value.  An operand that is not     *)
(* Copy is moved and its binding is unusable afterwards; an operand that is   *)
(* Copy is copied and its binding stays usable with the same value.  Dropping *)
(* the Composition releases the g and the f it holds; drop takes it by value  *)
(* too, so a Composition whose closures and argument types are all Copy is    *)
(* dropped as a copy and stays usable, and any other is gone.                 *)
OwnershipByValue ==
    /\ last.op = "compose"
         => /\ IsCallable(fv) <=> AllCopy(last.f)
            /\ IsCallable(fv) => fv = last.f
            /\ last.outer = "g" => (IsCallable(gv) <=> AllCopy(last.g))
            /\ (last.outer = "g" /\ IsCallable(gv)) => gv = last.g
    /\ last.op = "drop"
         => /\ last.released = {last.pre.g, last.pre.f}
            /\ IsCallable(Bound(last.on)) <=> CopyThroughout(last.pre)
            /\ IsCallable(Bound(last.on)) => Bound(last.on) = last.pre

\* g was moved into the Composition, the Copy f is still with the caller
OwnershipByValueWitness ==
    /\ last.op = "compose" /\ last.outer = "g"
    /\ ~AllCopy(last.g) /\ AllCopy(last.f)
    /\ gv = Moved /\ fv = last.f

\* every Composition inside c has a non-empty XG whose head is F's output
RECURSIVE Sound(_)
Sound(c) ==
    c.kind = "comp"
        => /\ c.xg = ArgsOf(c.g)
           /\ Len(c.xg) >= 1
           /\ OutputOf(c.f) = c.xg[1]
           /\ Sound(c.g) /\ Sound(c.f)

Fits(g, f) == Len(ArgsOf(g)) >= 1 /\ OutputOf(f) = ArgsOf(g)[1]

(* C6: static well-formedness.  compose is available exactly when g has an    *)
(* argument and g's first argument type is f's output type; no Composition   *)
(* that breaks this ever exists, and an available compose yields a            *)
(* Composition.                                                               *)
StaticWellFormedness ==
    /\ \A b \in Bindings : IsCallable(Bound(b)) => Sound(Bound(b))
    /\ last.op = "compose" => h.kind = "comp"
    /\ (IsCallable(gv) /\ IsCallable(fv))
         => ((ENABLED Compose) <=> Fits(gv, fv))
    /\ (IsCallable(h) /\ Depth(h) < MaxDepth /\ IsCallable(fv))
         => ((ENABLED Chain) <=> Fits(h, fv))

\* g.compose(f) was formed, f is Copy, and gf.compose(f) is not available
\* because f's output is not the type of gf's first argument
StaticWellFormednessWitness ==
    /\ last.op = "compose" /\ h.kind = "comp"
    /\ ncalls = 0 /\ Depth(h) < MaxDepth /\ IsCallable(fv)
    /\ Len(ArgsOf(h)) >= 1
    /\ ~ENABLED Chain

----------------------------------------------------------------------------
\* the events of the last invocation that belong to the field `who` itself
EventsOf(who) == SelectSeq(last.tr, LAMBDA e : e.path = <<who>>)

\* the field `who` panicked in the last invocation
Failed(who) == \E i \in 1..Len(EventsOf(who)) : EventsOf(who)[i].ev = "panic"

\* the failure the field `who` ended with
FailureOf(who) == EventsOf(who)[Len(EventsOf(who))].val

\* anything was called in g, at any depth
GTouched == \E i \in 1..Len(last.tr) :
               Len(last.tr[i].path) >= 1 /\ last.tr[i].path[1] = "g"

(* C7: no new failure path.  An invocation fails only with the panic of one   *)
(* of its primitives, unchanged: if f fails, its failure reaches the caller   *)
(* and g is not invoked; if g fails, its failure reaches the caller; if       *)
(* neither fails, the invocation returns.                                     *)
NoNewFailure ==
    Invoked =>
        /\ Failed("f") => (~last.ok /\ last.out = FailureOf("f") /\ ~GTouched)
        /\ Failed("g") => (~last.ok /\ last.out = FailureOf("g"))
        /\ (~Failed("f") /\ ~Failed("g")) => last.ok
        /\ ~last.ok => \E p \in Leaves(last.pre) :
                          /\ last.out = [kind |-> "panic", by |-> p.name,
                                         args |-> last.out.args, st |-> last.out.st]
                          /\ PanicsAt(p, last.out.args, last.out.st)

\* f panicked in an invocation whose g can panic as well
NoNewFailureWitness ==
    /\ Invoked /\ Failed("f") /\ ~last.ok
    /\ last.pre.g.kind = "prim" /\ last.pre.g.partial

\* the events of the last invocation at the Composition's own fields
TopEvents == SelectSeq(last.tr, LAMBDA e : Len(e.path) = 1)

(* C8: call order.  One invocation, through any method, calls f once through  *)
(* the same method with the right part of the arguments, and when f has       *)
(* returned calls g once through the same method with f's result in front;   *)
(* nothing else is called.  The calls logged over k invocations are (f, g)    *)
(* for every invocation that returned, so (f, g) k times when no primitive    *)
(* can panic.  After call_mut the Composition holds g and f as their calls    *)
(* left them, and so do the shared Cells.                                     *)
CallOrder ==
    /\ Invoked =>
         LET ev == TopEvents
         IN  /\ Len(ev) \in {2, 4}
             /\ ev[1].path = <<"f">> /\ ev[1].ev = "call" /\ ev[1].via = last.op
             /\ ev[1].val = SubSeq(last.args, Len(ArgsOf(last.pre.g)), Len(last.args))
             /\ ev[2].path = <<"f">> /\ ev[2].ev \in {"ret", "panic"}
             /\ Len(ev) = 4 <=> ev[2].ev = "ret"
             /\ Len(ev) = 4 =>
                   /\ ev[3].path = <<"g">> /\ ev[3].ev = "call" /\ ev[3].via = last.op
                   /\ ev[3].val[1] = ev[2].val
                   /\ ev[4].path = <<"g">> /\ ev[4].ev \in {"ret", "panic"}
    /\ Len(log) = ncalls
    /\ \A i \in 1..Len(log) :
          /\ log[i].calls \in {<<"f">>, <<"f", "g">>}
          /\ log[i].ok => log[i].calls = <<"f", "g">>
    /\ Invoked =>
          /\ log[ncalls] = [calls |-> Inner(last.tr), ok |-> last.ok]
          /\ (\A p \in Leaves(last.pre) : ~p.partial) => log[ncalls].calls = <<"f", "g">>
    /\ (last.op = "call_mut" /\ last.ok)
         => /\ Bound(last.on) = Bumped(last.pre)
            /\ cells = CellsAfter(last.pre, last.heap)

\* the second of two invocations through call_mut of a Composition of two
\* FnMut closures: both have the state two calls leave
CallOrderWitness ==
    /\ last.op = "call_mut" /\ last.on = "gf" /\ last.ok /\ ncalls = 2
    /\ log = <<[calls |-> <<"f", "g">>, ok |-> TRUE],
               [calls |-> <<"f", "g">>, ok |-> TRUE]>>
    /\ h.g.kind = "prim" /\ h.f.kind = "prim"
    /\ h.g.level = FN_MUT /\ h.f.level = FN_MUT
    /\ h.g.st = 2 /\ h.f.st = 2

\* no closure inside c has interior mutability
CellFree(c) == \A p \in Leaves(c) : p.cell = "none"

\* a callable without the state its closures hold
RECURSIVE Blank(_)
Blank(c) == IF c.kind = "comp" THEN [c EXCEPT !.g = Blank(c.g), !.f = Blank(c.f)]
            ELSE [c EXCEPT !.st = 0]

\* the last invocation went through &self, and the caller kept an earlier one
\* of the same Composition with the same arguments
Repeated ==
    /\ last.op = "call" /\ kept \notin {Off, None}
    /\ kept.n < ncalls /\ kept.on = last.on /\ kept.args = last.args
    /\ Blank(kept.pre) = Blank(last.pre)

\* the last invocation returned what the kept one returned
SameResult == last.ok = kept.ok /\ last.out = kept.out

(* C9 as stated: an invocation through &self of a Composition of Fn closures  *)
(* leaves the Composition, g and f unchanged, and returns what any earlier    *)
(* invocation with the same arguments returned.                               *)
PureUnchanging ==
    /\ last.op = "call" => (Bound(last.on) = last.pre /\ cells = last.heap)
    /\ Repeated => SameResult

(* C9 as amended: a Composition of Fn closures g and f is invoked through     *)
(* &self, any number of times.  The Composition has no state of its own: an   *)
(* invocation changes nothing but what g and f change of themselves through   *)
(* interior mutability.  When neither g nor f has any, every invocation       *)
(* leaves the Composition, g and f unchanged and returns what any earlier     *)
(* invocation with the same arguments returned, whatever was invoked between. *)
PureRepeatable ==
    /\ last.op = "call" =>
          /\ MinLevel(last.pre.g) = FN /\ MinLevel(last.pre.f) = FN
          /\ IsCallable(Bound(last.on)) /\ Supports(Bound(last.on), FN)
          /\ last.ok => /\ Bound(last.on) = Bumped(last.pre)
                        /\ cells = CellsAfter(last.pre, last.heap)
          /\ CellFree(last.pre) => (Bound(last.on) = last.pre /\ cells = last.heap)
    /\ (Repeated /\ CellFree(last.pre)) => SameResult

\* the third invocation, through &self with an argument that is 1, of a
\* Composition without interior mutability whose first invocation went through
\* &self with the same arguments
PureRepeatableWitness ==
    /\ Repeated /\ CellFree(last.pre) /\ last.ok
    /\ kept.n = 1 /\ ncalls = 3
    /\ Len(last.args) >= 1 /\ last.args[1] = 1

(* C10: compose is effect-free.  The new Composition holds g and f exactly as *)
(* they were passed; compose calls nothing and changes no state, so nothing   *)
(* is called before the first invocation, and no primitive has changed state  *)
(* by then.                                                                   *)
ComposeEffectFree ==
    /\ [](last.op = "compose" => (h.g = last.g /\ h.f = last.f))
    /\ [](ncalls = 0 =>
            /\ log = <<>>
            /\ cells = NoCells
            /\ IsCallable(h) => \A p \in Leaves(h) : p.st = 0)
    /\ [][last'.op = "compose" =>
            /\ log' = log
            /\ cells' = cells
            /\ h'.f = fv
            /\ h'.g = IF last'.outer = "g" THEN gv ELSE h]_vars

\* a Composition of two FnMut closures, formed and not yet invoked
ComposeEffectFreeWitness ==
    /\ last.op = "compose" /\ ncalls = 0
    /\ h.f.kind = "prim" /\ h.f.level = FN_MUT
    /\ h.g.kind = "prim" /\ h.g.level = FN_MUT

====
